---- MODULE Spec2Model ----
(***************************************************************************)
(* A model of goblet's GitHub resilience layer:                            *)
(*   - DoWithRetry, shouldRetry, parseRetryAfter   (http_client.go)        *)
(*   - TokenSource.Token, MultiTokenSource.Token   (github/token.go)       *)
(*   - NewTokenSource, NewMultiTokenSource,                                *)
(*     NewMultiTokenSourceFromConfigs              (github/token.go)       *)
(* The durations and the clock of the retry executor are int64 counts of   *)
(* nanoseconds; the clock of the token sources is in whole seconds.        *)
(***************************************************************************)
EXTENDS Integers, Sequences, FiniteSets, TLC

(***************************************************************************)
(* Part 1: the retry executor (http_client.go)                             *)
(***************************************************************************)

\* http_client.go:10
maxRetries == 3

\* http_client.go:11 (60 * time.Second)
maxRetryAfter == 60

\* The instant at which the modelled DoWithRetry call starts.
RetryStart == 100

\* Status codes the modelled transport can answer with.
Statuses == {200, 403, 404, 429, 501, 503}

\* A Retry-After header value is either a short text, given byte by byte
\* (one-character strings), or the RFC 1123 rendering of an instant, given
\* by that instant (t.Format(time.RFC1123), 29 bytes starting with the
\* name of a weekday).
TextHeader(chars) == [kind |-> "text", chars |-> chars, instant |-> 0]
DateHeader(t) == [kind |-> "date", chars |-> <<>>, instant |-> t]

\* The empty string: the header is absent.
NoHeader == TextHeader(<<>>)

\* 2^55 + 1, in decimal.
HugeSeconds ==
    <<"3", "6", "0", "2", "8", "7", "9", "7", "0",
      "1", "8", "9", "6", "3", "9", "6", "9">>

\* The header values the modelled server sends: "-1", "0", "1", "5", "120",
\* "36028797018963969", "soon", and two dates around the start of the call.
Headers ==
    {NoHeader}
      \cup {TextHeader(c) : c \in {<<"-", "1">>, <<"0">>, <<"1">>, <<"5">>,
                                   <<"1", "2", "0">>, HugeSeconds,
                                   <<"s", "o", "o", "n">>}}
      \cup {DateHeader(t) : t \in {RetryStart - 10, RetryStart + 10}}

\* The nil *http.Response.
NoResp == [status |-> 0, retryAfter |-> NoHeader, attempt |-> -1]

\* What client.Do can hand back: a response with a nil error, a transport
\* error with a nil response, or (a failed CheckRedirect) a response together
\* with an error.
TransportOutcomes ==
    {[err |-> FALSE, status |-> s, retryAfter |-> h] : s \in Statuses, h \in Headers}
      \cup {[err |-> TRUE, status |-> 0, retryAfter |-> NoHeader]}
      \cup {[err |-> TRUE, status |-> 302, retryAfter |-> NoHeader]}

\* Variant of shouldRetry that forgets the 501 exception.
shouldRetryAll5xx(statusCode) ==
    statusCode = 403 \/ statusCode = 429 \/ (statusCode >= 500 /\ statusCode < 600)

shouldRetry(statusCode) ==
    IF statusCode = 403 THEN TRUE
    ELSE IF statusCode = 429 THEN TRUE
    ELSE IF statusCode >= 500 /\ statusCode < 600 /\ statusCode # 501 THEN TRUE
    ELSE FALSE

\* Numbers too wide for one machine word of the model are kept as three
\* limbs in base 10^9: top * 10^18 + hi * 10^9 + lo.
Limb == 10^9

DecimalDigits == <<"0", "1", "2", "3", "4", "5", "6", "7", "8", "9">>

IsDigit(c) == \E i \in 1..10 : DecimalDigits[i] = c

DigitVal(c) == (CHOOSE i \in 1..10 : DecimalDigits[i] = c) - 1

\* The value of at most nine decimal digits.
RECURSIVE Num(_)
Num(ds) ==
    IF ds = <<>> THEN 0
    ELSE 10 * Num(SubSeq(ds, 1, Len(ds) - 1)) + DigitVal(ds[Len(ds)])

RECURSIVE StripZeros(_)
StripZeros(ds) ==
    IF Len(ds) > 1 /\ ds[1] = "0" THEN StripZeros(Tail(ds)) ELSE ds

\* The value of at most 27 decimal digits.
Limbs(ds) ==
    LET k == Len(ds)
        from(i) == IF i < 1 THEN 1 ELSE i
    IN  [top |-> IF k > 18 THEN Num(SubSeq(ds, 1, k - 18)) ELSE 0,
         hi  |-> IF k > 9 THEN Num(SubSeq(ds, from(k - 17), k - 9)) ELSE 0,
         lo  |-> Num(SubSeq(ds, from(k - 8), k))]

\* The magnitude fits an int64: at most 9223372036854775807, or one more
\* for a negative number.
InInt64(m, neg) ==
    \/ m.top < 9
    \/ /\ m.top = 9
       /\ \/ m.hi < 223372036
          \/ /\ m.hi = 223372036
             /\ m.lo <= 854775807 + (IF neg THEN 1 ELSE 0)

NoInt == [ok |-> FALSE, neg |-> FALSE, mag |-> [top |-> 0, hi |-> 0, lo |-> 0]]

\* strconv.Atoi on a 64-bit platform: an optional sign, then one or more
\* decimal digits and nothing else; a value outside int64 is an error.
Atoi(s) ==
    IF s.kind # "text" \/ s.chars = <<>> THEN NoInt
    ELSE LET signed == s.chars[1] \in {"+", "-"}
             neg == s.chars[1] = "-"
             ds == IF signed THEN Tail(s.chars) ELSE s.chars
             sig == StripZeros(ds)
         IN  IF ds = <<>> \/ (\E i \in 1..Len(ds) : ~IsDigit(ds[i])) THEN NoInt
             ELSE IF Len(sig) > 19 \/ ~InInt64(Limbs(sig), neg) THEN NoInt
             ELSE [ok |-> TRUE, neg |-> neg, mag |-> Limbs(sig)]

\* Natural numbers below 10^36 are kept as four limbs of base 10^9, the
\* most significant first: every sum and difference of two limbs fits a
\* machine word of the model.
WideZero == <<0, 0, 0, 0>>

WideLess(x, y) ==
    \E i \in 1..4 : x[i] < y[i] /\ \A j \in 1..(i - 1) : x[j] = y[j]

WideAdd(x, y) ==
    LET s4 == x[4] + y[4]
        s3 == x[3] + y[3] + (IF s4 >= Limb THEN 1 ELSE 0)
        s2 == x[2] + y[2] + (IF s3 >= Limb THEN 1 ELSE 0)
        s1 == x[1] + y[1] + (IF s2 >= Limb THEN 1 ELSE 0)
        low(v) == IF v >= Limb THEN v - Limb ELSE v
    IN  <<s1, low(s2), low(s3), low(s4)>>

\* x - y, for x >= y.
WideSub(x, y) ==
    LET d4 == x[4] - y[4]
        d3 == x[3] - y[3] - (IF d4 < 0 THEN 1 ELSE 0)
        d2 == x[2] - y[2] - (IF d3 < 0 THEN 1 ELSE 0)
        d1 == x[1] - y[1] - (IF d2 < 0 THEN 1 ELSE 0)
        low(v) == IF v < 0 THEN v + Limb ELSE v
    IN  <<d1, low(d2), low(d3), low(d4)>>

\* v modulo m, by halving from the least m * 2^k above v.
RECURSIVE WideRem(_, _)
WideRem(v, m) ==
    IF WideLess(v, m) THEN v
    ELSE LET r == WideRem(v, WideAdd(m, m))
         IN  IF WideLess(r, m) THEN r ELSE WideSub(r, m)

\* 2^64 = 18446744073709551616 and 2^63 = 9223372036854775808
TwoTo64 == <<0, 18, 446744073, 709551616>>
TwoTo63 == <<0, 9, 223372036, 854775808>>

\* A time.Duration is an int64 count of nanoseconds, kept as a sign and a
\* magnitude; zero has no sign.
Nanoseconds(neg, mag) == [neg |-> neg /\ mag # WideZero, mag |-> mag]

\* time.Duration(k) * time.Second for a small integer k.
Seconds(k) == Nanoseconds(k < 0, <<0, 0, IF k < 0 THEN 0 - k ELSE k, 0>>)

\* a < b
DurLess(a, b) ==
    IF a.neg # b.neg THEN a.neg
    ELSE IF a.neg THEN WideLess(b.mag, a.mag)
    ELSE WideLess(a.mag, b.mag)

\* a + b and a - b, for results inside int64.
DurAdd(a, b) ==
    IF a.neg = b.neg THEN Nanoseconds(a.neg, WideAdd(a.mag, b.mag))
    ELSE IF WideLess(a.mag, b.mag) THEN Nanoseconds(b.neg, WideSub(b.mag, a.mag))
    ELSE Nanoseconds(a.neg, WideSub(a.mag, b.mag))

DurSub(a, b) == DurAdd(a, Nanoseconds(~b.neg, b.mag))

\* time.Duration(seconds) * time.Second: the int64 product, taken modulo
\* 2^64 and read as a signed number.  |seconds| * 10^9 is the magnitude
\* moved up by one limb.
TimesSecond(a) ==
    LET product == <<a.mag.top, a.mag.hi, a.mag.lo, 0>>
        low64 == WideRem(product, TwoTo64)
        bits == IF a.neg /\ low64 # WideZero THEN WideSub(TwoTo64, low64)
                ELSE low64
    IN  IF WideLess(bits, TwoTo63) THEN Nanoseconds(FALSE, bits)
        ELSE Nanoseconds(TRUE, WideSub(TwoTo64, bits))

\* time.Parse(time.RFC1123, s): a text of the model is too short to be a
\* date; the rendering of an instant parses back to that instant.  An
\* instant is the duration since the zero instant of the model.
TimeParse(s) == [ok |-> s.kind = "date", t |-> Seconds(s.instant)]

\* time.Until(t) at instant at.
Until(t, at) == DurSub(t, at)

\* Variant of parseRetryAfter without the integer form (lines 87-90).
parseRetryAfterDatesOnly(retryAfter, at) ==
    IF retryAfter = NoHeader THEN Seconds(0)
    ELSE IF TimeParse(retryAfter).ok
            /\ DurLess(Seconds(0), Until(TimeParse(retryAfter).t, at))
         THEN Until(TimeParse(retryAfter).t, at)
    ELSE Seconds(0)

\* at: the instant of the call (time.Until reads the clock).
parseRetryAfter(retryAfter, at) ==
    IF retryAfter = NoHeader THEN Seconds(0)
    ELSE IF Atoi(retryAfter).ok THEN TimesSecond(Atoi(retryAfter))
    ELSE IF TimeParse(retryAfter).ok
            /\ DurLess(Seconds(0), Until(TimeParse(retryAfter).t, at))
         THEN Until(TimeParse(retryAfter).t, at)
    ELSE Seconds(0)

\* Variant of line 46 with a linear backoff: attempt + 1.
Succ1(k) == k + 1

\* Line 46: 1 << uint(attempt)
Shl1(k) == 2 ^ k

\* Lines 36-52: the duration handed to time.Sleep after a failed attempt.
WaitDuration(r, attemptIdx, at) ==
    LET hinted == IF r # NoResp THEN parseRetryAfter(r.retryAfter, at)
                  ELSE Seconds(0)
        backed == IF hinted = Seconds(0) THEN Seconds(Shl1(attemptIdx))
                  ELSE hinted
    IN  IF DurLess(Seconds(maxRetryAfter), backed) THEN Seconds(maxRetryAfter)
        ELSE backed

\* time.Sleep returns at once for a duration <= 0: the time that passes.
Slept(d) == IF DurLess(Seconds(0), d) THEN d ELSE Seconds(0)

VARIABLES
    rpc,        \* position of the DoWithRetry call: "idle", "loop", "done"
    attempt,    \* the loop variable
    resp,       \* local resp
    err,        \* local err (TRUE = non-nil)
    ret,        \* the returned (resp, err) pair
    calls,      \* the outcomes client.Do produced, in order
    waits,      \* the durations passed to time.Sleep, in order
    closed,     \* indices of the attempts whose body DoWithRetry closed, in order
    closedAt,   \* the instants at which those bodies were closed
    rclock      \* wall clock of the retry executor

rvars == <<rpc, attempt, resp, err, ret, calls, waits, closed, closedAt, rclock>>

VARIABLES
    n,            \* len(m.sources)
    token,        \* token[s]: ts.token of source s
    tsMu,         \* tsMu[s]: holder of ts.mu of source s, 0 when free
    delta,        \* delta[s]: ts.tokenExpiryDelta
    pmu,          \* holder of m.mu, 0 when free
    rngDraws,     \* number of values drawn from m.rng
    statsd,       \* m.statsdClient != nil
    metric,       \* metric[s]: goblet.token.app_selected increments tagged s
    now,          \* wall clock, as last read
    ticks,        \* clock steps taken
    pc,           \* pc[p]: position of caller p
    selected,     \* selected[p]: local selected
    mintErr,      \* mintErr[p]: local err of line 136
    tsRet,        \* tsRet[p]: what TokenSource.Token returned to p
    poolRet,      \* poolRet[p]: what MultiTokenSource.Token returned to p
    started,      \* calls of MultiTokenSource.Token begun
    completed,    \* calls of MultiTokenSource.Token returned
    seenTok,      \* seenTok[p]: ts.token as read at line 123
    seenNow,      \* seenNow[p]: the clock at line 123
    mints,        \* mints[p]: mint invocations made by p's current call
    newTok,       \* newTok[p]: what the mint of p's current call produced
    delegated,    \* delegated[p]: sources whose Token() p's current call invoked
    selCount,     \* selCount[s]: calls that selected source s
    mintCount,    \* mintCount[s]: mint invocations for source s
    sawFail       \* sawFail[p]: while p's current call was blocked on ts.mu,
                  \* the mint of the lock holder failed

pvars == <<n, token, tsMu, delta, pmu, rngDraws, statsd, metric, now, ticks,
           pc, selected, mintErr, tsRet, poolRet, started, completed,
           seenTok, seenNow, mints, newTok, delegated, selCount, mintCount,
           sawFail>>

VARIABLES
    applied,      \* a direct call of shouldRetry or parseRetryAfter
    ctor          \* a call of one of the constructors of github/token.go

fvars == <<applied, ctor>>

vars == <<rvars, pvars, fvars>>

NoRet == [resp |-> NoResp, err |-> FALSE]

RetryInit ==
    /\ rpc = "idle"
    /\ attempt = 0
    /\ resp = NoResp
    /\ err = FALSE
    /\ ret = NoRet
    /\ calls = <<>>
    /\ waits = <<>>
    /\ closed = <<>>
    /\ closedAt = <<>>
    /\ rclock = Seconds(RetryStart)

\* Lines 16-20: entry, attempt := 0.
RetryBegin ==
    /\ rpc = "idle"
    /\ rpc' = "loop"
    /\ attempt' = 0
    /\ UNCHANGED <<resp, err, ret, calls, waits, closed, closedAt, rclock>>
    /\ UNCHANGED <<pvars, fvars>>

\* Variant of line 27 that also stops on a transport error.
ReturnsNowOrErr(out) == out.err \/ ~shouldRetry(out.status)

\* Line 27: a nil error and a status that is not retryable.
ReturnsNow(out) == ~out.err /\ ~shouldRetry(out.status)

\* Variant of line 32 that is off by one.
ExhaustedLate(attemptIdx) == attemptIdx > maxRetries

\* Line 32.
Exhausted(attemptIdx) == attemptIdx >= maxRetries

\* Variant of lines 38-42 that leaves the body open.
KeepOpen(cl, r, entry) == cl

\* Lines 38 and 41: resp.Body.Close() when there is a response; cl is the
\* record of the bodies closed so far, entry what is noted of this one.
CloseBody(cl, r, entry) ==
    IF r # NoResp THEN Append(cl, entry) ELSE cl

\* Lines 20-55: one iteration of the loop, with transport outcome out.
RetryIteration(out) ==
    LET r == IF out.status = 0 THEN NoResp
             ELSE [status |-> out.status, retryAfter |-> out.retryAfter,
                   attempt |-> attempt]
    IN
    /\ rpc = "loop"
    /\ calls' = Append(calls, out)
    /\ resp' = r
    /\ err' = out.err
    /\ IF ReturnsNow(out)
       THEN /\ ret' = [resp |-> r, err |-> FALSE]
            /\ rpc' = "done"
            /\ UNCHANGED <<attempt, waits, closed, closedAt, rclock>>
       ELSE IF Exhausted(attempt)
       THEN /\ ret' = [resp |-> r, err |-> out.err]
            /\ rpc' = "done"
            /\ UNCHANGED <<attempt, waits, closed, closedAt, rclock>>
       ELSE LET w == WaitDuration(r, attempt, rclock)
            IN  /\ closed' = CloseBody(closed, r, attempt)
                /\ closedAt' = CloseBody(closedAt, r, rclock)
                /\ waits' = Append(waits, w)
                /\ rclock' = DurAdd(rclock, Slept(w))
                /\ attempt' = attempt + 1
                /\ UNCHANGED <<rpc, ret>>
    /\ UNCHANGED <<pvars, fvars>>


(***************************************************************************)
(* Part 2: the credential source and the credential pool (github/token.go) *)
(***************************************************************************)

\* Number of concurrent callers of MultiTokenSource.Token.
NumProcs == 2

\* Largest pool that is constructed.
MaxSources == 2

\* Calls of MultiTokenSource.Token made in all.
MaxCalls == 2

\* The instant of construction, the length of one clock step and the number
\* of clock steps that are taken.
StartTime == 100
TickStep == 5
MaxTicks == 1

\* golang.org/x/oauth2: Token.Valid treats a token as expired this many
\* seconds before its Expiry (defaultExpiryDelta = 10 * time.Second).
oauth2ExpiryDelta == 10

Procs == 1..NumProcs

\* tokenExpiryDelta values the sources are built with.
Deltas == {0, 20}

\* The nil *oauth2.Token.
NoToken == [nil |-> TRUE, access |-> "", expiry |-> 0, id |-> 0]

\* The token the tests pre-populate a source with: no Expiry.
TestToken == [nil |-> FALSE, access |-> "test-token", expiry |-> 0, id |-> 0]

\* What GenerateOAuthTokenFromApp can hand back: an error, a token that
\* expires life seconds after it is minted, or a token with an empty
\* AccessToken and no Expiry.
MintOutcomes ==
    {[ok |-> FALSE, access |-> "", life |-> 0]}
      \cup {[ok |-> TRUE, access |-> "ghs", life |-> d] : d \in {5, 20}}
      \cup {[ok |-> TRUE, access |-> "", life |-> 0]}

\* oauth2.Token.expired
TokenExpired(t, at) ==
    IF t.expiry = 0 THEN FALSE
    ELSE t.expiry - oauth2ExpiryDelta < at

\* oauth2.Token.Valid
TokenValid(t, at) == ~t.nil /\ t.access # "" /\ ~TokenExpired(t, at)

\* Variant of line 125 with the comparison turned around (After for Before).
BeforeReversed(a, b) == a > b

\* Line 125: Expiry.Round(0).Add(-tokenExpiryDelta).Before(currentTime)
Before(a, b) == a < b

\* Variant of lines 123-132 that leaves out the tokenExpiryDelta test.
ReturnsCachedNoMargin(t, margin, at) == TokenValid(t, at)

\* Lines 123-132: TRUE when Token() returns the cached token at line 128.
ReturnsCached(t, margin, at) ==
    IF TokenValid(t, at)
    THEN IF t.expiry # 0 /\ Before(t.expiry - margin, at) THEN FALSE ELSE TRUE
    ELSE FALSE

NoErr == "nil"
MintErr == "mint failed"

\* Line 144: the error TokenSource.Token returns after a mint with error e.
TokenReturnErr(e) == NoErr

NoResult == [tok |-> NoToken, err |-> NoErr, set |-> FALSE]


Srcs == 0..(n - 1)

\* newTestMultiTokenSource: every source is a TokenSource literal with a
\* pre-populated token and a zero tokenExpiryDelta; no metrics sink.
TestPool ==
    /\ token = [s \in 0..(n - 1) |-> TestToken]
    /\ delta = [s \in 0..(n - 1) |-> 0]
    /\ statsd = FALSE

\* NewMultiTokenSourceFromConfigs: every source comes from NewTokenSource with
\* an empty cache and the same tokenExpiryDelta; a metrics sink is given.
ConfiguredPool ==
    /\ token = [s \in 0..(n - 1) |-> NoToken]
    /\ \E d \in Deltas : delta = [s \in 0..(n - 1) |-> d]
    /\ statsd = TRUE

\* No caller has called yet.
CallersInit ==
    /\ pmu = 0
    /\ rngDraws = 0
    /\ now = StartTime
    /\ ticks = 0
    /\ pc = [p \in Procs |-> "idle"]
    /\ selected = [p \in Procs |-> 0]
    /\ mintErr = [p \in Procs |-> NoErr]
    /\ tsRet = [p \in Procs |-> NoResult]
    /\ poolRet = [p \in Procs |-> NoResult]
    /\ started = 0
    /\ completed = 0
    /\ seenTok = [p \in Procs |-> NoToken]
    /\ seenNow = [p \in Procs |-> 0]
    /\ mints = [p \in Procs |-> 0]
    /\ newTok = [p \in Procs |-> NoToken]
    /\ delegated = [p \in Procs |-> <<>>]
    /\ sawFail = [p \in Procs |-> FALSE]

\* NewMultiTokenSource: a pool of 1..MaxSources sources.
PoolInit ==
    /\ n \in 1..MaxSources
    /\ TestPool \/ ConfiguredPool
    /\ tsMu = [s \in 0..(n - 1) |-> 0]
    /\ metric = [s \in 0..(n - 1) |-> 0]
    /\ selCount = [s \in 0..(n - 1) |-> 0]
    /\ mintCount = [s \in 0..(n - 1) |-> 0]
    /\ CallersInit


\* Time passes between two readings of the clock: a reading finds it where
\* the last one left it, or one step later.
Elapsed == {d \in {0, TickStep} : d = 0 \/ ticks < MaxTicks}

Ticked(d) == IF d > 0 THEN ticks + 1 ELSE ticks

\* Variant of Lock that does not wait for the holder.
CanLockAlways(holder) == TRUE

\* sync.Mutex.Lock: taken only when free.
CanLock(holder) == holder = 0

\* Lines 63-65: the optional selection metric.
Incr(i) == IF statsd THEN [metric EXCEPT ![i] = @ + 1] ELSE metric

\* Variant of line 54 that sends every pool through the lock and the draw.
SingleSourceNever(k) == FALSE

\* Line 54: n == 1
SingleSource(k) == k = 1

\* MultiTokenSource.Token, lines 51-56: entry.  With one source, lines 55 and
\* 61-65 follow without any lock: selected = 0 and the metric.
PoolBegin(p) ==
    /\ pc[p] = "idle"
    /\ started < MaxCalls
    /\ started' = started + 1
    /\ IF SingleSource(n)
       THEN /\ selected' = [selected EXCEPT ![p] = 0]
            /\ selCount' = [selCount EXCEPT ![0] = @ + 1]
            /\ metric' = Incr(0)
            /\ pc' = [pc EXCEPT ![p] = "tslock"]
       ELSE /\ pc' = [pc EXCEPT ![p] = "plock"]
            /\ UNCHANGED <<selected, selCount, metric>>
    /\ UNCHANGED <<n, token, tsMu, delta, pmu, rngDraws, statsd, now, ticks,
                   completed, mintCount, mintErr, seenTok, seenNow, mints,
                   newTok, tsRet, poolRet, delegated>>
    /\ UNCHANGED sawFail
    /\ UNCHANGED <<rvars, fvars>>

\* Line 57: m.mu.Lock()
PoolLock(p) ==
    /\ pc[p] = "plock"
    /\ CanLock(pmu)
    /\ pmu' = p
    /\ pc' = [pc EXCEPT ![p] = "pdraw"]
    /\ UNCHANGED <<n, token, tsMu, delta, rngDraws, statsd, metric, now, ticks,
                   selected, mintErr, tsRet, poolRet, started, completed, seenTok, seenNow,
                   mints, newTok, delegated, selCount, mintCount>>
    /\ UNCHANGED sawFail
    /\ UNCHANGED <<rvars, fvars>>

\* rand.Rand.Intn(k): some value of 0..k-1 (the generator is seeded with the
\* construction time).
Intn(k) == 0..(k - 1)

\* Variant of line 59 that defers the unlock to the return of Token(): the
\* caller keeps m.mu while it is inside source.Token().
PoolUnlockDeferred(holder) == holder

\* Line 59: m.mu.Unlock(); the holder of m.mu afterwards.
PoolUnlock(holder) == 0

\* Lines 58-59, the rest of the critical section: selected = m.rng.Intn(n);
\* m.mu.Unlock().  The test of line 63 reads a field that never changes: a
\* pool without a statsd client goes on to source.Token() of line 67.
PoolDraw(p) ==
    /\ pc[p] = "pdraw"
    /\ \E i \in Intn(n) :
          /\ selected' = [selected EXCEPT ![p] = i]
          /\ selCount' = [selCount EXCEPT ![i] = @ + 1]
    /\ rngDraws' = rngDraws + 1
    /\ pmu' = PoolUnlock(p)
    /\ pc' = [pc EXCEPT ![p] = IF statsd THEN "pmetric" ELSE "tslock"]
    /\ UNCHANGED <<n, token, tsMu, delta, statsd, metric, now, ticks,
                   mintErr, tsRet, poolRet, started, completed, seenTok,
                   seenNow, mints, newTok, delegated, mintCount>>
    /\ UNCHANGED sawFail
    /\ UNCHANGED <<rvars, fvars>>

\* Lines 63-65, after m.mu is released: the selection metric of a pool with
\* a statsd client.
PoolMetric(p) ==
    /\ pc[p] = "pmetric"
    /\ metric' = Incr(selected[p])
    /\ pc' = [pc EXCEPT ![p] = "tslock"]
    /\ UNCHANGED <<n, token, tsMu, delta, pmu, rngDraws, statsd, now, ticks,
                   selected, mintErr, tsRet, poolRet, started, completed,
                   seenTok, seenNow, mints, newTok, delegated, selCount,
                   mintCount>>
    /\ UNCHANGED sawFail
    /\ UNCHANGED <<rvars, fvars>>

\* Line 67 calling into TokenSource.Token, line 120: ts.mu.Lock()
SourceLock(p) ==
    /\ pc[p] = "tslock"
    /\ CanLock(tsMu[selected[p]])
    /\ tsMu' = [tsMu EXCEPT ![selected[p]] = p]
    /\ delegated' = [delegated EXCEPT ![p] = Append(@, selected[p])]
    /\ pc' = [pc EXCEPT ![p] = "tscheck"]
    /\ UNCHANGED <<n, token, delta, pmu, rngDraws, statsd, metric, now, ticks,
                   selected, mintErr, tsRet, poolRet, started, completed, seenTok, seenNow,
                   mints, newTok, selCount, mintCount>>
    /\ UNCHANGED sawFail
    /\ UNCHANGED <<rvars, fvars>>

\* Lines 123-134, with the clock read d later than the last reading: return
\* the cached token, or discard it and go on to mint.
SourceCheck(p, d) ==
    LET s == selected[p]
        currentTime == now + d
    IN
    /\ pc[p] = "tscheck"
    /\ now' = currentTime
    /\ ticks' = Ticked(d)
    /\ seenTok' = [seenTok EXCEPT ![p] = token[s]]
    /\ seenNow' = [seenNow EXCEPT ![p] = currentTime]
    /\ IF ReturnsCached(token[s], delta[s], currentTime)
       THEN /\ tsRet' = [tsRet EXCEPT ![p] =
                            [tok |-> token[s], err |-> NoErr, set |-> TRUE]]
            /\ pc' = [pc EXCEPT ![p] = "tsunlock"]
            /\ UNCHANGED token
       ELSE /\ token' = [token EXCEPT ![s] = NoToken]
            /\ pc' = [pc EXCEPT ![p] = "tsmint"]
            /\ UNCHANGED tsRet
    /\ UNCHANGED <<n, tsMu, delta, pmu, rngDraws, statsd, metric,
                   selected, mintErr, poolRet, started, completed, mints,
                   newTok, delegated, selCount, mintCount>>
    /\ UNCHANGED sawFail
    /\ UNCHANGED <<rvars, fvars>>

\* Lines 136-144: GenerateOAuthTokenFromApp returns out, d after the last
\* reading of the clock; cache and return.
SourceMint(p, out, d) ==
    LET s == selected[p]
        e == IF out.ok THEN NoErr ELSE MintErr
        minted == [nil |-> FALSE, access |-> out.access,
                   expiry |-> IF out.life = 0 THEN 0 ELSE now + d + out.life,
                   id |-> mintCount[s] + 1]
        cached == IF e = NoErr THEN minted ELSE token[s]
    IN
    /\ pc[p] = "tsmint"
    /\ now' = now + d
    /\ ticks' = Ticked(d)
    /\ mintCount' = [mintCount EXCEPT ![s] = @ + 1]
    /\ mints' = [mints EXCEPT ![p] = @ + 1]
    /\ mintErr' = [mintErr EXCEPT ![p] = e]
    /\ newTok' = [newTok EXCEPT ![p] = IF e = NoErr THEN minted ELSE NoToken]
    /\ token' = [token EXCEPT ![s] = cached]
    /\ tsRet' = [tsRet EXCEPT ![p] =
                    [tok |-> cached, err |-> TokenReturnErr(e), set |-> TRUE]]
    /\ pc' = [pc EXCEPT ![p] = "tsunlock"]
    /\ sawFail' = [q \in Procs |->
                      IF e # NoErr /\ q # p /\ pc[q] = "tslock" /\ selected[q] = s
                      THEN TRUE ELSE sawFail[q]]
    /\ UNCHANGED <<n, tsMu, delta, pmu, rngDraws, statsd, metric,
                   selected, poolRet, started, completed, seenTok, seenNow,
                   delegated, selCount>>
    /\ UNCHANGED <<rvars, fvars>>

\* Variant of line 67 that turns a nil token into an error of the pool's own.
PoolResultWrapped(r) ==
    [r EXCEPT !.err = IF r.tok.nil THEN "no token" ELSE r.err]

\* Line 67: what MultiTokenSource.Token returns, given the source's result.
PoolResult(r) == r

\* Line 121, the deferred ts.mu.Unlock() as TokenSource.Token returns, and
\* line 67, MultiTokenSource.Token returning that result.  The locals of the
\* finished TokenSource.Token frame are dropped.
SourceReturn(p) ==
    /\ pc[p] = "tsunlock"
    /\ tsMu' = [tsMu EXCEPT ![selected[p]] = 0]
    /\ poolRet' = [poolRet EXCEPT ![p] = PoolResult(tsRet[p])]
    /\ completed' = completed + 1
    /\ mintErr' = [mintErr EXCEPT ![p] = NoErr]
    /\ seenTok' = [seenTok EXCEPT ![p] = NoToken]
    /\ seenNow' = [seenNow EXCEPT ![p] = 0]
    /\ mints' = [mints EXCEPT ![p] = 0]
    /\ newTok' = [newTok EXCEPT ![p] = NoToken]
    /\ sawFail' = [sawFail EXCEPT ![p] = FALSE]
    /\ pc' = [pc EXCEPT ![p] = "returned"]
    /\ UNCHANGED <<n, token, delta, pmu, rngDraws, statsd, metric, now, ticks,
                   selected, tsRet, started, delegated, selCount, mintCount>>
    /\ UNCHANGED <<rvars, fvars>>

\* The caller takes the (token, error) pair and is free to call again.
CallerResume(p) ==
    /\ pc[p] = "returned"
    /\ pc' = [pc EXCEPT ![p] = "idle"]
    /\ selected' = [selected EXCEPT ![p] = 0]
    /\ tsRet' = [tsRet EXCEPT ![p] = NoResult]
    /\ poolRet' = [poolRet EXCEPT ![p] = NoResult]
    /\ delegated' = [delegated EXCEPT ![p] = <<>>]
    /\ UNCHANGED <<n, token, tsMu, delta, pmu, rngDraws, statsd, metric, now,
                   ticks, mintErr, started, completed, seenTok, seenNow, mints,
                   newTok, selCount, mintCount>>
    /\ UNCHANGED sawFail
    /\ UNCHANGED <<rvars, fvars>>

(***************************************************************************)
(* Part 3: shouldRetry and parseRetryAfter called on their own             *)
(***************************************************************************)

\* Longest header text that is built from HeaderBytes.
MaxTextLen == 3

\* The status codes shouldRetry is applied to.
StatusCodes == 0..999

\* The bytes the short header texts are made of.
HeaderBytes == {"-", "+", "0", "1", "6", "x"}

\* "36028797018963968" (2^55), "-36028797018963969",
\* "0000000000000000000005", "99999999999999999999", and integers whose
\* count of nanoseconds is outside int64: "10000000000",
\* "1000000000000000000" (10^18), "1008806316530991109" (28 * 2^55 + 5),
\* "9000000000000000061", "9223372036854775807" and
\* "-9223372036854775808".
LongTexts ==
    {<<"3", "6", "0", "2", "8", "7", "9", "7", "0",
       "1", "8", "9", "6", "3", "9", "6", "8">>,
     <<"-">> \o HugeSeconds,
     [i \in 1..22 |-> IF i = 22 THEN "5" ELSE "0"],
     [i \in 1..20 |-> "9"],
     [i \in 1..11 |-> IF i = 1 THEN "1" ELSE "0"],
     [i \in 1..19 |-> IF i = 1 THEN "1" ELSE "0"],
     <<"1", "0", "0", "8", "8", "0", "6", "3", "1", "6",
       "5", "3", "0", "9", "9", "1", "1", "0", "9">>,
     [i \in 1..19 |-> IF i = 1 THEN "9" ELSE IF i = 18 THEN "6"
                                    ELSE IF i = 19 THEN "1" ELSE "0"],
     <<"9", "2", "2", "3", "3", "7", "2", "0", "3", "6",
       "8", "5", "4", "7", "7", "5", "8", "0", "7">>,
     <<"-", "9", "2", "2", "3", "3", "7", "2", "0", "3", "6",
       "8", "5", "4", "7", "7", "5", "8", "0", "8">>}

\* The instants at which parseRetryAfter is called.
ParseTimes == {RetryStart, RetryStart + 10}

\* The header values parseRetryAfter is applied to.
ParseInputs ==
    {TextHeader(c) : c \in UNION {[1..k -> HeaderBytes] : k \in 0..MaxTextLen}}
      \cup {TextHeader(c) : c \in LongTexts \cup {<<"1", "2", "0">>, HugeSeconds}}
      \cup {DateHeader(t) : t \in {RetryStart - 10, RetryStart + 10, RetryStart + 20}}

NoCall ==
    [fn |-> "none", status |-> 0, header |-> NoHeader, at |-> 0,
     done |-> FALSE, retry |-> FALSE, wait |-> Seconds(0)]

\* The calls the tests of http_client_test.go make: one function, one input.
PendingCalls ==
    {[NoCall EXCEPT !.fn = "shouldRetry", !.status = s] : s \in StatusCodes}
      \cup {[NoCall EXCEPT !.fn = "parseRetryAfter", !.header = h, !.at = t] :
               h \in ParseInputs, t \in ParseTimes}

\* No constructor is called.
NoCtor ==
    [fn |-> "none", outcome |-> "none", size |-> 0,
     sources |-> [nil |-> TRUE, items |-> <<>>],
     configs |-> [nil |-> TRUE, items |-> <<>>]]

\* shouldRetry(applied.status)
CallShouldRetry ==
    /\ applied.fn = "shouldRetry"
    /\ ~applied.done
    /\ applied' = [applied EXCEPT !.done = TRUE,
                                  !.retry = shouldRetry(applied.status)]
    /\ UNCHANGED <<rvars, pvars, ctor>>

\* parseRetryAfter(applied.header), called at the instant applied.at
CallParseRetryAfter ==
    /\ applied.fn = "parseRetryAfter"
    /\ ~applied.done
    /\ applied' = [applied EXCEPT !.done = TRUE,
                                  !.wait = parseRetryAfter(applied.header,
                                                           Seconds(applied.at))]
    /\ UNCHANGED <<rvars, pvars, ctor>>


(***************************************************************************)
(* Part 4: the constructors (github/token.go)                              *)
(***************************************************************************)

AppIDs == {"", "app"}

InstallationIDs == {"", "inst"}

\* Key material: empty; text without a PEM block; a PEM block that does not
\* hold a PKCS#1 RSA key; a PEM-encoded PKCS#1 RSA key.
PrivateKeys == {"", "not pem", "pem: certificate", "pem: rsa key"}

AppConfigs ==
    [appID : AppIDs, installationID : InstallationIDs, privateKey : PrivateKeys]

\* A Go slice: nil, or a (possibly empty) list of items.
NilList == [nil |-> TRUE, items |-> <<>>]

ListOf(items) == [nil |-> FALSE, items |-> items]

ListsOver(S) ==
    {NilList} \cup {ListOf(l) : l \in UNION {[1..k -> S] : k \in 0..MaxSources}}

\* The sources handed to NewMultiTokenSource: test literals and sources as
\* NewTokenSource returns them.
SourceValues ==
    {[token |-> TestToken, delta |-> 0]}
      \cup {[token |-> NoToken, delta |-> d] : d \in Deltas}

\* pem.Decode: the first PEM block of the text, or nil when it has none.
PemDecode(key) ==
    [nil |-> key \notin {"pem: certificate", "pem: rsa key"}, bytes |-> key]

\* x509.ParsePKCS1PrivateKey
ParsePKCS1PrivateKey(bytes) == [ok |-> bytes = "pem: rsa key"]

\* NewTokenSource, lines 147-173.  Line 160 reads block.Bytes: with a nil
\* block that is a nil pointer dereference, a run-time panic.
NewTokenSource(appID, installationID, privateKey, d) ==
    IF appID = "" THEN [outcome |-> "error", source |-> [token |-> NoToken, delta |-> 0]]
    ELSE IF installationID = ""
    THEN [outcome |-> "error", source |-> [token |-> NoToken, delta |-> 0]]
    ELSE IF privateKey = ""
    THEN [outcome |-> "error", source |-> [token |-> NoToken, delta |-> 0]]
    ELSE IF PemDecode(privateKey).nil
    THEN [outcome |-> "panic", source |-> [token |-> NoToken, delta |-> 0]]
    ELSE IF ~ParsePKCS1PrivateKey(PemDecode(privateKey).bytes).ok
    THEN [outcome |-> "error", source |-> [token |-> NoToken, delta |-> 0]]
    ELSE [outcome |-> "source", source |-> [token |-> NoToken, delta |-> d]]

\* Lines 95-102: the loop over the configs stops at the first config that
\* NewTokenSource rejects (or panics on).
RECURSIVE BuildSources(_, _)
BuildSources(cfgs, d) ==
    IF cfgs = <<>> THEN [outcome |-> "source", items |-> <<>>]
    ELSE LET r == NewTokenSource(Head(cfgs).appID, Head(cfgs).installationID,
                                 Head(cfgs).privateKey, d)
         IN  IF r.outcome # "source" THEN [outcome |-> r.outcome, items |-> <<>>]
             ELSE LET rest == BuildSources(Tail(cfgs), d)
                  IN  IF rest.outcome # "source" THEN rest
                      ELSE [outcome |-> "source",
                            items |-> <<r.source>> \o rest.items]

\* Variant of the emptiness test that only catches a nil slice.
IsNilSlice(l) == l.nil

\* Lines 78 and 92: len(...) == 0, true of a nil and of an empty slice.
HasLen0(l) == Len(l.items) = 0

\* Lines 81-85: the MultiTokenSource literal.
InstallPool(items, sd) ==
    /\ n' = Len(items)
    /\ token' = [s \in 0..(Len(items) - 1) |-> items[s + 1].token]
    /\ delta' = [s \in 0..(Len(items) - 1) |-> items[s + 1].delta]
    /\ statsd' = sd
    /\ tsMu' = [s \in 0..(Len(items) - 1) |-> 0]
    /\ metric' = [s \in 0..(Len(items) - 1) |-> 0]
    /\ selCount' = [s \in 0..(Len(items) - 1) |-> 0]
    /\ mintCount' = [s \in 0..(Len(items) - 1) |-> 0]
    /\ UNCHANGED <<pmu, rngDraws, now, ticks, pc, selected, mintErr, tsRet,
                   poolRet, started, completed, seenTok, seenNow, mints,
                   newTok, delegated, sawFail>>

\* NewMultiTokenSource, lines 77-86; call names the constructor that was
\* called and its arguments.
NewMultiTokenSource(call, srcs, sd) ==
    IF HasLen0(srcs)
    THEN /\ ctor' = [call EXCEPT !.outcome = "error"]
         /\ UNCHANGED pvars
    ELSE /\ ctor' = [call EXCEPT !.outcome = "pool", !.size = Len(srcs.items)]
         /\ InstallPool(srcs.items, sd)

\* NumSources, lines 71-73.
NumSources == n

\* A direct call of NewMultiTokenSource.
CallNewMultiTokenSource(srcs, sd) ==
    /\ ctor = NoCtor
    /\ NewMultiTokenSource([NoCtor EXCEPT !.fn = "NewMultiTokenSource",
                                          !.sources = srcs], srcs, sd)
    /\ UNCHANGED <<rvars, applied>>

\* NewMultiTokenSourceFromConfigs, lines 91-106.
CallNewMultiTokenSourceFromConfigs(cfgs, d, sd) ==
    LET call == [NoCtor EXCEPT !.fn = "NewMultiTokenSourceFromConfigs",
                               !.configs = cfgs]
        built == BuildSources(cfgs.items, d)
    IN
    /\ ctor = NoCtor
    /\ IF HasLen0(cfgs)
       THEN /\ ctor' = [call EXCEPT !.outcome = "error"]
            /\ UNCHANGED pvars
       ELSE IF built.outcome # "source"
       THEN /\ ctor' = [call EXCEPT !.outcome = built.outcome]
            /\ UNCHANGED pvars
       ELSE NewMultiTokenSource(call, ListOf(built.items), sd)
    /\ UNCHANGED <<rvars, applied>>

\* A direct call of NewTokenSource.
CallNewTokenSource(cfg, d) ==
    /\ ctor = NoCtor
    /\ ctor' = [NoCtor EXCEPT
                  !.fn = "NewTokenSource",
                  !.configs = ListOf(<<cfg>>),
                  !.outcome = NewTokenSource(cfg.appID, cfg.installationID,
                                             cfg.privateKey, d).outcome]
    /\ UNCHANGED <<rvars, pvars, applied>>

\* Before any constructor has run there is no pool.
NoPool ==
    /\ n = 0
    /\ token = <<>>
    /\ delta = <<>>
    /\ statsd = FALSE
    /\ tsMu = <<>>
    /\ metric = <<>>
    /\ selCount = <<>>
    /\ mintCount = <<>>


(***************************************************************************)
(* Specifications                                                          *)
(***************************************************************************)

\* No function and no constructor is called on its own.
NoDirectCalls ==
    /\ applied = NoCall
    /\ ctor = NoCtor

Init == PoolInit /\ RetryInit /\ NoDirectCalls

\* The credential pool under concurrent callers; no DoWithRetry call runs.
Next ==
    \/ \E p \in Procs : PoolBegin(p)
    \/ \E p \in Procs : PoolLock(p)
    \/ \E p \in Procs : PoolDraw(p)
    \/ \E p \in Procs : PoolMetric(p)
    \/ \E p \in Procs : SourceLock(p)
    \/ \E p \in Procs : \E d \in Elapsed : SourceCheck(p, d)
    \/ \E p \in Procs : \E out \in MintOutcomes : \E d \in Elapsed :
          SourceMint(p, out, d)
    \/ \E p \in Procs : SourceReturn(p)
    \/ \E p \in Procs : CallerResume(p)

Spec == Init /\ [][Next]_vars

\* One DoWithRetry call; the pool is left as constructed.
RetryNext ==
    \/ RetryBegin
    \/ \E out \in TransportOutcomes : RetryIteration(out)

\* The pool beside it is a test pool of one source.
RetryOnlyInit ==
    /\ Init
    /\ n = 1
    /\ TestPool

RetrySpec == RetryOnlyInit /\ [][RetryNext]_vars

\* shouldRetry and parseRetryAfter applied to one input each.
FnInit ==
    /\ PoolInit /\ n = 1 /\ TestPool
    /\ RetryInit
    /\ applied \in PendingCalls
    /\ ctor = NoCtor

FnNext ==
    \/ CallShouldRetry
    \/ CallParseRetryAfter

FnSpec == FnInit /\ [][FnNext]_vars

\* One constructor call; a pool that comes out of it is then used by one
\* caller.
CtorInit ==
    /\ NoPool
    /\ CallersInit
    /\ RetryInit
    /\ NoDirectCalls

CtorNext ==
    \/ ctor = NoCtor /\ \E srcs \in ListsOver(SourceValues) : \E sd \in BOOLEAN :
          CallNewMultiTokenSource(srcs, sd)
    \/ ctor = NoCtor /\ \E cfgs \in ListsOver(AppConfigs) : \E d \in Deltas :
          \E sd \in BOOLEAN : CallNewMultiTokenSourceFromConfigs(cfgs, d, sd)
    \/ ctor = NoCtor /\ \E cfg \in AppConfigs : \E d \in Deltas :
          CallNewTokenSource(cfg, d)
    \/ ctor.outcome = "pool" /\ PoolBegin(1)
    \/ \E p \in Procs : PoolLock(p)
    \/ \E p \in Procs : PoolDraw(p)
    \/ \E p \in Procs : PoolMetric(p)
    \/ \E p \in Procs : SourceLock(p)
    \/ \E p \in Procs : \E d \in Elapsed : SourceCheck(p, d)
    \/ \E p \in Procs : \E out \in MintOutcomes : \E d \in Elapsed :
          SourceMint(p, out, d)
    \/ \E p \in Procs : SourceReturn(p)
    \/ \E p \in Procs : CallerResume(p)

CtorSpec == CtorInit /\ [][CtorNext]_vars


(***************************************************************************)
(* Properties of the retry executor                                        *)
(***************************************************************************)

\* The retryable status set as the specification words it.
Retryable(st) == st \in {403, 429} \/ (st \in 500..599 /\ st # 501)

\* The i-th transport outcome is a response (nil error) with a retryable status.
RetryableAnswer(i) == ~calls[i].err /\ Retryable(calls[i].status)

\* The i-th transport outcome is a transport error without a response.
BareError(i) == calls[i].err /\ calls[i].status = 0

\* The response of the i-th attempt, as DoWithRetry holds it.
AnswerOf(i) ==
    [status |-> calls[i].status, retryAfter |-> calls[i].retryAfter,
     attempt |-> i - 1]

\* C1: one DoWithRetry call makes at most 4 (= 1 + maxRetries) transport
\* attempts and has returned once the 4th is made; when every attempt yields a
\* retryable status it makes exactly 4 attempts and returns the last response,
\* still carrying the retryable status, with a nil error.
C1_AttemptBudget ==
    /\ Len(calls) <= 4
    /\ Len(calls) = 4 => rpc = "done"
    /\ (rpc = "done" /\ \A i \in 1..Len(calls) : RetryableAnswer(i))
          => /\ Len(calls) = 4
             /\ ret.resp = AnswerOf(4)
             /\ Retryable(ret.resp.status)
             /\ ret.err = FALSE

C1_Witness ==
    /\ rpc = "done"
    /\ Len(calls) = 4
    /\ \A i \in 1..4 : RetryableAnswer(i) /\ calls[i].status = 429
    /\ ret.resp.status = 429
    /\ ret.err = FALSE

\* C2 as claimed: a transport error without a response ends the call at that
\* attempt: the error is returned, nothing is slept after it and no attempt
\* follows it.
C2_ErrorStopsAtOnce ==
    \A i \in 1..Len(calls) :
        BareError(i) =>
            /\ i = Len(calls)
            /\ rpc = "done"
            /\ ret.err = TRUE
            /\ Len(waits) < i

\* C2 as amended: a transport error without a response on an attempt before
\* the last (index < maxRetries) does not end the call: no body is closed,
\* 2^index seconds are slept and the loop goes on to a further attempt; only
\* on the last attempt (index = maxRetries) is the error returned at once, with
\* a nil response and without a wait.
C2_ErrorIsRetried ==
    \A i \in 1..Len(calls) :
        BareError(i) =>
            IF i - 1 < 3
            THEN /\ Len(waits) >= i
                 /\ waits[i] = Seconds(2 ^ (i - 1))
                 /\ \A k \in 1..Len(closed) : closed[k] # i - 1
                 /\ (rpc = "loop" /\ attempt >= i) \/ Len(calls) > i
            ELSE /\ rpc = "done"
                 /\ ret.err = TRUE
                 /\ ret.resp = NoResp
                 /\ Len(waits) = 3

C2_Witness ==
    /\ rpc = "done"
    /\ Len(calls) = 4
    /\ BareError(2)
    /\ waits[2] = Seconds(2)
    /\ BareError(4)
    /\ ret.err = TRUE

\* C10: a response with a nil error whose status is not retryable ends the
\* call at that attempt: it is returned unchanged with a nil error, its body
\* is not closed, nothing is slept after it and no attempt follows it; an
\* endpoint answering 200 or 501 at once sees exactly one attempt.
C10_FinalAnswerReturned ==
    \A i \in 1..Len(calls) :
        (~calls[i].err /\ ~Retryable(calls[i].status)) =>
            /\ i = Len(calls)
            /\ rpc = "done"
            /\ ret.resp = AnswerOf(i)
            /\ ret.err = FALSE
            /\ Len(waits) = i - 1
            /\ \A k \in 1..Len(closed) : closed[k] # i - 1

C10_Witness ==
    /\ rpc = "done"
    /\ Len(calls) = 1
    /\ calls[1].status = 501
    /\ ~calls[1].err
    /\ ret.resp.status = 501
    /\ waits = <<>>


(***************************************************************************)
(* Properties of the credential source                                     *)
(***************************************************************************)

\* Caller p is inside TokenSource.Token, past the cache check of lines 123-132.
PastCheck(p) == pc[p] \in {"tsmint", "tsunlock"}

\* Caller p is about to return from TokenSource.Token.
AtReturn(p) == pc[p] = "tsunlock"

\* C3 as claimed: when Token() had to refresh and the mint failed, the cache is
\* left empty and the call returns a nil token together with the mint error,
\* never a nil token with a nil error.
C3_MintErrorReturned ==
    \A p \in Procs :
        (AtReturn(p) /\ mints[p] = 1 /\ mintErr[p] # NoErr) =>
            /\ token[selected[p]] = NoToken
            /\ tsRet[p].tok = NoToken
            /\ tsRet[p].err # NoErr

\* The refresh the claims describe, for caller p on its selected source: the
\* cache was discarded, and when the call is about to return, mint was invoked
\* exactly once and a successful mint is cached and returned.
Refreshed(p) ==
    /\ pc[p] = "tsmint" => (token[selected[p]] = NoToken /\ mints[p] = 0)
    /\ AtReturn(p) =>
          /\ mints[p] = 1
          /\ mintErr[p] = NoErr =>
                /\ ~newTok[p].nil
                /\ newTok[p] # seenTok[p]
                /\ token[selected[p]] = newTok[p]
                /\ tsRet[p].tok = newTok[p]

\* C4 as claimed: the cached token is absent, empty, or its expiry is not more
\* than the renewal margin ahead (expiry - margin <= now, boundary included).
StaleAsClaimed(t, margin, at) ==
    \/ t.nil
    \/ t.access = ""
    \/ (t.expiry # 0 /\ t.expiry - margin <= at)

C4_RefreshAtBoundary ==
    \A p \in Procs :
        (PastCheck(p) /\ StaleAsClaimed(seenTok[p], delta[selected[p]], seenNow[p]))
            => Refreshed(p)

\* The cached token is served: returned as it was read, without a mint and
\* with the cache left as it was.
ServedFromCache(p) ==
    /\ AtReturn(p)
    /\ tsRet[p].tok = seenTok[p]
    /\ tsRet[p].err = NoErr
    /\ mints[p] = 0
    /\ token[selected[p]] = seenTok[p]

\* The cached token is absent, empty, or its expiry is less than the renewal
\* margin ahead or less than 10 seconds ahead.
StaleStrictly(t, margin, at) ==
    \/ t.nil
    \/ t.access = ""
    \/ (t.expiry # 0 /\ (t.expiry - margin < at \/ t.expiry - 10 < at))

\* The expiry of the cached token is exactly the renewal margin ahead.
AtBoundary(t, margin, at) ==
    ~t.nil /\ t.access # "" /\ t.expiry # 0 /\ t.expiry - margin = at

\* C4 as amended: whenever the cached token is absent, empty, or its expiry is
\* less than the renewal margin ahead or less than 10 seconds ahead
\* (expiry - margin < now or expiry - 10 s < now), Token() discards the
\* cache, invokes mint exactly once and, when the mint succeeds, caches and
\* returns the newly minted token.  At the boundary expiry - margin = now it
\* does so when the margin is below 10 seconds, and serves the cached token
\* without a mint when the margin is 10 seconds or more.
C4_RefreshWhenStale ==
    \A p \in Procs :
        LET t == seenTok[p]
            margin == delta[selected[p]]
            at == seenNow[p]
        IN  PastCheck(p) =>
               /\ StaleStrictly(t, margin, at) => Refreshed(p)
               /\ (AtBoundary(t, margin, at) /\ margin < 10) => Refreshed(p)
               /\ (AtBoundary(t, margin, at) /\ margin >= 10)
                     => ServedFromCache(p)

\* A token that only the renewal margin makes stale was replaced by a new one.
C4_Witness ==
    \E p \in Procs :
        /\ AtReturn(p)
        /\ ~seenTok[p].nil /\ seenTok[p].access # "" /\ seenTok[p].expiry # 0
        /\ seenTok[p].expiry - delta[selected[p]] < seenNow[p]
        /\ seenTok[p].expiry > seenNow[p] + 10
        /\ mints[p] = 1
        /\ ~newTok[p].nil
        /\ tsRet[p].tok = newTok[p]

\* C5 as claimed: a cached token that is present, non-empty and has no expiry
\* or an expiry more than the renewal margin ahead is served from the cache.
FreshAsClaimed(t, margin, at) ==
    /\ ~t.nil
    /\ t.access # ""
    /\ (t.expiry = 0 \/ t.expiry - margin > at)

C5_CachedTokenServed ==
    \A p \in Procs :
        (PastCheck(p) /\ FreshAsClaimed(seenTok[p], delta[selected[p]], seenNow[p]))
            => ServedFromCache(p)

\* C5 as amended: a cached token that is present, non-empty and has no expiry,
\* or an expiry more than the renewal margin ahead and at least 10 seconds
\* ahead (oauth2's Token.Valid treats a token as expired 10 s early), is served
\* from the cache: the same token is returned, mint is not invoked, the cache
\* is unchanged.
FreshAndValid(t, margin, at) ==
    /\ ~t.nil
    /\ t.access # ""
    /\ (t.expiry = 0 \/ (t.expiry - margin > at /\ t.expiry >= at + 10))

C5_ValidCachedTokenServed ==
    \A p \in Procs :
        (PastCheck(p) /\ FreshAndValid(seenTok[p], delta[selected[p]], seenNow[p]))
            => ServedFromCache(p)

\* A minted, expiring token is served from the cache by a later call.
C5_Witness ==
    \E p \in Procs :
        /\ ServedFromCache(p)
        /\ seenTok[p].expiry # 0
        /\ seenTok[p].id >= 1
        /\ seenTok[p].expiry - delta[selected[p]] > seenNow[p]

\* C6: at most one mint per source is in progress, and a caller that reads or
\* writes the cached token of a source (the check of lines 123-134, the mint
\* and store of lines 136-144, up to the deferred unlock) holds that source's
\* lock.
C6_OneMintUnderLock ==
    /\ \A s \in Srcs :
          Cardinality({p \in Procs : pc[p] = "tsmint" /\ selected[p] = s}) <= 1
    /\ \A p \in Procs :
          pc[p] \in {"tscheck", "tsmint", "tsunlock"} => tsMu[selected[p]] = p

\* One caller mints while another waits for the same source's lock.
C6_Witness ==
    \E p, q \in Procs :
        /\ p # q
        /\ selected[p] = selected[q]
        /\ pc[p] = "tsmint"
        /\ pc[q] = "tslock"

(***************************************************************************)
(* Properties of the credential pool                                       *)
(***************************************************************************)

Quiescent == \A p \in Procs : pc[p] = "idle"

\* Calls of MultiTokenSource.Token completed so far.
TotalDone == completed

\* C7 as claimed: once k calls have completed, k a multiple of the pool size
\* n, every member source has been selected exactly k/n times.
C7_EvenSelection ==
    (Quiescent /\ TotalDone % n = 0)
        => \A s \in Srcs : selCount[s] = TotalDone \div n

\* C8 as claimed: once T calls have completed, the pool's selection state has
\* advanced exactly T times.  MultiTokenSource has no counter field; the one
\* piece of selection state a call can advance is m.rng.
C8_SelectionStateCountsCalls ==
    Quiescent => rngDraws = TotalDone

\* C9: every MultiTokenSource.Token call selects one index of 0..n-1, invokes
\* Token() on that source once and on no other, and returns what that source
\* returned, unchanged.
C9_DelegatesToSelected ==
    \A p \in Procs :
        /\ selected[p] \in Srcs
        /\ pc[p] \in {"tscheck", "tsmint", "tsunlock"}
              => delegated[p] = <<selected[p]>>
        /\ pc[p] = "returned" =>
              /\ delegated[p] = <<selected[p]>>
              /\ poolRet[p].set
              /\ poolRet[p] = tsRet[p]

\* A call on a two-source pool returned the token source 1 minted; another
\* call returned the nil token of a failed mint.
C9_Witness ==
    \E p, q \in Procs :
        /\ n = 2
        /\ pc[p] = "returned"
        /\ selected[p] = 1
        /\ poolRet[p].tok.access = "ghs"
        /\ pc[q] = "returned"
        /\ poolRet[q].tok.nil

(***************************************************************************)
(* Properties of the retry executor: waits and response bodies             *)
(***************************************************************************)

\* The i-th transport outcome is a retryable response whose Retry-After
\* header is a positive integer of at most 60, written as one or two digits.
PositiveHint(i) ==
    /\ RetryableAnswer(i)
    /\ calls[i].retryAfter.kind = "text"
    /\ Len(calls[i].retryAfter.chars) \in 1..2
    /\ \A k \in 1..Len(calls[i].retryAfter.chars) :
          calls[i].retryAfter.chars[k] \in
             {"0", "1", "2", "3", "4", "5", "6", "7", "8", "9"}
    /\ Num(calls[i].retryAfter.chars) \in 1..60

\* The integer that header holds.
HintOf(i) == Num(calls[i].retryAfter.chars)

RECURSIVE SumHints(_)
SumHints(j) == IF j = 0 THEN 0 ELSE SumHints(j - 1) + HintOf(j)

\* The i-th transport outcome is a response (nil error) with a status that
\* is not retryable.
FinalAnswer(i) == ~calls[i].err /\ ~Retryable(calls[i].status)

\* C11: when the first j attempts (0 <= j <= maxRetries) are answered with a
\* retryable status carrying a positive integer Retry-After hint of at most
\* 60, DoWithRetry sleeps exactly that hint after each of them (j*h seconds
\* in all for a constant hint h) and goes on to attempt j+1; when attempt j+1
\* is answered with a status that is not retryable, the call has made exactly
\* j+1 attempts and returns that response with a nil error.
C11_HintedRetries ==
    \A j \in 0..maxRetries :
        (j <= Len(calls) /\ \A i \in 1..j : PositiveHint(i)) =>
            /\ Len(waits) >= j
            /\ \A i \in 1..j : waits[i] = Seconds(HintOf(i))
            /\ ~DurLess(rclock, Seconds(RetryStart + SumHints(j)))
            /\ j = Len(calls) => rpc \in {"idle", "loop"} /\ attempt = j
            /\ (j < Len(calls) /\ FinalAnswer(j + 1)) =>
                  /\ rpc = "done"
                  /\ Len(calls) = j + 1
                  /\ Len(waits) = j
                  /\ rclock = Seconds(RetryStart + SumHints(j))
                  /\ ret = [resp |-> AnswerOf(j + 1), err |-> FALSE]

\* 429 with "Retry-After: 5", then 403 with "Retry-After: 1", then 200:
\* three attempts, waits of 5 and 1 seconds, the 200 returned.
C11_Witness ==
    /\ rpc = "done"
    /\ Len(calls) = 3
    /\ PositiveHint(1) /\ calls[1].status = 429 /\ HintOf(1) = 5
    /\ PositiveHint(2) /\ calls[2].status = 403 /\ HintOf(2) = 1
    /\ FinalAnswer(3) /\ calls[3].status = 200
    /\ waits = <<Seconds(5), Seconds(1)>>
    /\ rclock = Seconds(RetryStart + 6)
    /\ ret.resp.status = 200
    /\ ret.err = FALSE

\* The i-th transport outcome is a retryable response whose Retry-After
\* header is an unsigned decimal integer above 60.
LargeHint(i) ==
    /\ RetryableAnswer(i)
    /\ calls[i].retryAfter.kind = "text"
    /\ calls[i].retryAfter.chars # <<>>
    /\ \A k \in 1..Len(calls[i].retryAfter.chars) :
          calls[i].retryAfter.chars[k] \in
             {"0", "1", "2", "3", "4", "5", "6", "7", "8", "9"}
    /\ \/ Len(StripZeros(calls[i].retryAfter.chars)) > 2
       \/ Num(StripZeros(calls[i].retryAfter.chars)) > 60

\* C12 as claimed: every wait between two attempts is at most 60 seconds,
\* and a retryable response whose hint is larger than 60 seconds is followed
\* by a wait of exactly 60 seconds.
C12_WaitsCapped ==
    /\ \A i \in 1..Len(waits) : ~DurLess(Seconds(60), waits[i])
    /\ \A i \in 1..Len(waits) : LargeHint(i) => waits[i] = Seconds(60)

(***************************************************************************)
(* Properties of shouldRetry and parseRetryAfter                           *)
(***************************************************************************)

\* C13: for every status code s, shouldRetry(s) is true exactly when s is
\* 403, s is 429, or 500 <= s <= 599 with s # 501, and false for every other
\* code (all 2xx, the other 4xx, 501 among them).
C13_RetryableSet ==
    (applied.fn = "shouldRetry" /\ applied.done) =>
        /\ applied.retry <=> Retryable(applied.status)
        /\ applied.status \in 200..299 => ~applied.retry
        /\ applied.status \in (400..499) \ {403, 429} => ~applied.retry
        /\ applied.status = 501 => ~applied.retry

\* shouldRetry(501) has been evaluated and is false.
C13_Witness ==
    /\ applied.fn = "shouldRetry"
    /\ applied.done
    /\ applied.status = 501
    /\ ~applied.retry

\* The header text is a decimal integer: an optional sign and digits.
HoldsInteger(h) ==
    /\ h.kind = "text"
    /\ h.chars # <<>>
    /\ LET ds == IF h.chars[1] \in {"+", "-"} THEN Tail(h.chars) ELSE h.chars
       IN  /\ ds # <<>>
           /\ \A k \in 1..Len(ds) :
                 ds[k] \in {"0", "1", "2", "3", "4", "5", "6", "7", "8", "9"}

\* The duration w is exactly as many seconds as the integer in h says.
IsThatManySeconds(w, h) ==
    LET neg == h.chars[1] = "-"
        ds == IF h.chars[1] \in {"+", "-"} THEN Tail(h.chars) ELSE h.chars
        mag == Limbs(StripZeros(ds))
    IN  /\ w.mag = <<mag.top, mag.hi, mag.lo, 0>>
        /\ w.neg => neg
        /\ (w # Seconds(0) /\ ~w.neg) => ~neg

\* C14 as claimed: parseRetryAfter returns n seconds for a header holding
\* the integer n, the time remaining until the date for an RFC 1123 date in
\* the future, and 0 for an empty header, for text that is neither, and for
\* a date that is not in the future.
C14_ParsedHint ==
    (applied.fn = "parseRetryAfter" /\ applied.done) =>
        IF HoldsInteger(applied.header)
        THEN IsThatManySeconds(applied.wait, applied.header)
        ELSE IF applied.header.kind = "date" /\ applied.header.instant > applied.at
        THEN applied.wait = Seconds(applied.header.instant - applied.at)
        ELSE applied.wait = Seconds(0)

(***************************************************************************)
(* Properties of the constructors                                          *)
(***************************************************************************)

\* C15: NewMultiTokenSource called with a nil or an empty source list, and
\* NewMultiTokenSourceFromConfigs called with a nil or an empty config list,
\* return an error and no pool; a pool that a constructor did return has at
\* least one source, and NumSources() keeps the value it had at construction
\* through every Token() call made on the pool.
C15_PoolNeverEmpty ==
    /\ (ctor.fn = "NewMultiTokenSource" /\ ctor.sources.items = <<>>) =>
          ctor.outcome = "error" /\ NoPool
    /\ (ctor.fn = "NewMultiTokenSourceFromConfigs" /\ ctor.configs.items = <<>>) =>
          ctor.outcome = "error" /\ NoPool
    /\ ctor.outcome = "pool" =>
          /\ NumSources >= 1
          /\ NumSources = ctor.size
          /\ ctor.fn = "NewMultiTokenSource" =>
                NumSources = Len(ctor.sources.items)
          /\ ctor.fn = "NewMultiTokenSourceFromConfigs" =>
                NumSources = Len(ctor.configs.items)

\* A pool built from two configs has answered two Token() calls and still
\* has two sources.
C15_Witness ==
    /\ ctor.fn = "NewMultiTokenSourceFromConfigs"
    /\ ctor.outcome = "pool"
    /\ Len(ctor.configs.items) = 2
    /\ completed = 2
    /\ NumSources = 2

\* C16 as claimed: NewTokenSource returns a configuration error, and neither
\* a source nor a crash, whenever the app id is empty, the installation id is
\* empty, the key material is empty, or the key material does not parse as a
\* private key (text that is no PEM at all included).
C16_ConfigError ==
    ctor.fn = "NewTokenSource" =>
        LET cfg == ctor.configs.items[1]
        IN  (\/ cfg.appID = ""
             \/ cfg.installationID = ""
             \/ cfg.privateKey = ""
             \/ cfg.privateKey \in {"not pem", "pem: certificate"})
               => ctor.outcome = "error"

(***************************************************************************)
(* Properties of the credential pool: one source, waiting callers          *)
(***************************************************************************)

\* C17: on a pool of exactly one source no Token() call ever takes the pool
\* lock or draws from the random generator; every call selects index 0,
\* invokes Token() on that source and returns exactly what it returned, call
\* after call.
C17_SingleSourceDirect ==
    n = 1 =>
        /\ pmu = 0
        /\ rngDraws = 0
        /\ selCount[0] = started
        /\ \A p \in Procs :
              /\ pc[p] \notin {"plock", "pdraw"}
              /\ selected[p] = 0
              /\ pc[p] = "returned" =>
                    /\ delegated[p] = <<0>>
                    /\ poolRet[p].set
                    /\ poolRet[p].tok = tsRet[p].tok
                    /\ poolRet[p].err = tsRet[p].err

\* The second of two calls on a one-source pool has returned the token the
\* source handed out; the lock and the generator were never touched.
C17_Witness ==
    /\ n = 1
    /\ completed = 2
    /\ rngDraws = 0
    /\ \E p \in Procs :
          /\ pc[p] = "returned"
          /\ delegated[p] = <<0>>
          /\ ~poolRet[p].tok.nil
          /\ poolRet[p].tok = tsRet[p].tok

\* C18 as claimed: a caller that was blocked on the source lock while the
\* holder's mint failed returns, once unblocked, the failure state (no
\* token) without invoking mint itself.
C18_WaiterSharesFailure ==
    \A q \in Procs :
        (sawFail[q] /\ AtReturn(q)) =>
            /\ mints[q] = 0
            /\ tsRet[q].tok.nil

\* C18 as amended: such a caller goes on only after the holder has released
\* the lock, and then runs the cache check itself.  Finding the cache still
\* empty it invokes mint itself, once, so that the source has by then seen
\* at least two mint invocations, and returns what its own mint produced; it
\* returns without minting only when another caller has refreshed the cache
\* in between, and then it returns that token.  It never returns the failure
\* of the first mint without a mint of its own.
C18_WaiterMintsItself ==
    \A q \in Procs :
        sawFail[q] =>
            /\ PastCheck(q) =>
                  \A p \in Procs \ {q} :
                      selected[p] = selected[q] =>
                          pc[p] \notin {"tscheck", "tsmint", "tsunlock"}
            /\ AtReturn(q) =>
                  \/ /\ mints[q] = 1
                     /\ mintCount[selected[q]] >= 2
                     /\ tsRet[q].tok = IF mintErr[q] = NoErr THEN newTok[q]
                                       ELSE NoToken
                  \/ /\ mints[q] = 0
                     /\ ~tsRet[q].tok.nil
                     /\ tsRet[q].tok.id >= 1
                     /\ tsRet[q].tok = seenTok[q]

\* A caller that waited through a failed mint has minted itself and is
\* about to return its own token.
C18_Witness ==
    \E q \in Procs :
        /\ sawFail[q]
        /\ AtReturn(q)
        /\ mints[q] = 1
        /\ mintErr[q] = NoErr
        /\ tsRet[q].tok.access = "ghs"
        /\ mintCount[selected[q]] = 2

(***************************************************************************)
(* Properties of the retry executor: backoff and response bodies           *)
(***************************************************************************)

\* The instant at which the i-th attempt was answered: the start of the
\* wait that follows it.
RECURSIVE ClockBefore(_)
ClockBefore(i) ==
    IF i = 1 THEN Seconds(RetryStart)
    ELSE DurAdd(ClockBefore(i - 1),
                IF DurLess(Seconds(0), waits[i - 1]) THEN waits[i - 1]
                ELSE Seconds(0))

\* The i-th transport outcome is a retryable response without a usable
\* Retry-After hint: no header, text that is neither an integer nor a date,
\* the integer zero, or a date that is not in the future.
NoUsableHint(i) ==
    LET h == calls[i].retryAfter
    IN  /\ RetryableAnswer(i)
        /\ \/ h = NoHeader
           \/ h.kind = "text" /\ ~HoldsInteger(h)
           \/ HoldsInteger(h) /\ \A k \in 1..Len(h.chars) : h.chars[k] \in {"+", "-", "0"}
           \/ h.kind = "date" /\ ~DurLess(ClockBefore(i), Seconds(h.instant))

\* C19: when a retryable response carries no usable Retry-After hint and
\* attempts remain, the wait before the next attempt is 2^i seconds, i the
\* zero-based index of the attempt that failed: 1 s, 2 s and 4 s before
\* retries 1, 2 and 3.
C19_ExponentialBackoff ==
    \A i \in 1..Len(calls) :
        (NoUsableHint(i) /\ i - 1 < maxRetries) =>
            /\ Len(waits) >= i
            /\ waits[i] = Seconds(2 ^ (i - 1))
            /\ waits[i] = Seconds(<<1, 2, 4>>[i])

\* Four 503 answers without a Retry-After header: waits of 1, 2 and 4 s.
C19_Witness ==
    /\ rpc = "done"
    /\ Len(calls) = 4
    /\ \A i \in 1..4 : NoUsableHint(i) /\ calls[i].status = 503
                          /\ calls[i].retryAfter = NoHeader
    /\ waits = <<Seconds(1), Seconds(2), Seconds(4)>>
    /\ rclock = Seconds(RetryStart + 7)

\* The number of times DoWithRetry closed the body of attempt a.
ClosedCount(a) == Cardinality({k \in 1..Len(closed) : closed[k] = a})

\* C20: every response that is followed by another attempt has had its body
\* closed exactly once, at the instant the wait after it began, and is not
\* the value returned; no other body is closed.  The response returned is
\* the one of the last attempt (nil when that attempt had none) and
\* DoWithRetry has not closed its body.
C20_BodiesClosed ==
    /\ Len(closedAt) = Len(closed)
    /\ \A i \in 1..Len(calls) :
          IF calls[i].status # 0 /\ (i < Len(calls) \/ rpc = "loop")
          THEN /\ ClosedCount(i - 1) = 1
               /\ Len(waits) >= i
               /\ \A k \in 1..Len(closed) :
                     closed[k] = i - 1 => closedAt[k] = ClockBefore(i)
               /\ rpc = "done" => ret.resp # AnswerOf(i)
          ELSE ClosedCount(i - 1) = 0
    /\ rpc = "done" =>
          /\ ret.resp = IF calls[Len(calls)].status = 0 THEN NoResp
                        ELSE AnswerOf(Len(calls))
          /\ \A k \in 1..Len(closed) : closed[k] # Len(calls) - 1

\* 429, then a transport error, then 503, then 200: the bodies of attempts 0
\* and 2 were closed, the 200 of attempt 3 is returned unclosed.
C20_Witness ==
    /\ rpc = "done"
    /\ Len(calls) = 4
    /\ RetryableAnswer(1) /\ BareError(2) /\ RetryableAnswer(3)
    /\ calls[4].status = 200
    /\ closed = <<0, 2>>
    /\ ret.resp = AnswerOf(4)
    /\ ret.err = FALSE

(***************************************************************************)
(* Properties of the credential pool: independence of the sources          *)
(***************************************************************************)

\* Caller p is inside the Token() of the source it selected.
InSource(p) == pc[p] \in {"tslock", "tscheck", "tsmint", "tsunlock"}

\* C21: callers of different sources never block each other.  No caller is
\* inside a source's Token() while it holds the pool lock; the lock of a
\* source is only ever held by a caller that selected that source; and
\* while a mint for source i is in progress, a caller that selected another
\* source j can take every step of its own call: it acquires j's lock as
\* soon as no caller of j holds it, and checks, mints and returns without
\* waiting for the mint of i to end.
C21_SourcesIndependent ==
    /\ \A p \in Procs : InSource(p) => pmu # p
    /\ \A s \in Srcs :
          tsMu[s] # 0 =>
              /\ selected[tsMu[s]] = s
              /\ pc[tsMu[s]] \in {"tscheck", "tsmint", "tsunlock"}
    /\ \A p, q \in Procs :
          (pc[p] = "tsmint" /\ InSource(q) /\ selected[q] # selected[p]) =>
              /\ tsMu[selected[q]] # p
              /\ (pc[q] = "tslock" /\ tsMu[selected[q]] = 0)
                    => ENABLED SourceLock(q)
              /\ pc[q] = "tscheck" => ENABLED (\E d \in Elapsed : SourceCheck(q, d))
              /\ pc[q] = "tsmint" =>
                    ENABLED (\E out \in MintOutcomes : \E d \in Elapsed :
                                SourceMint(q, out, d))
              /\ pc[q] = "tsunlock" => ENABLED SourceReturn(q)

\* While the mint of one caller is still in progress, a caller of another
\* source holds that source's lock, has finished its own mint and is about
\* to return its token.
C21_Witness ==
    \E p, q \in Procs :
        /\ pc[p] = "tsmint"
        /\ selected[q] # selected[p]
        /\ tsMu[selected[p]] = p
        /\ tsMu[selected[q]] = q
        /\ pc[q] = "tsunlock"
        /\ mints[q] = 1
        /\ tsRet[q].tok.access = "ghs"

(***************************************************************************)
(* Properties of the retry executor: the sign of the wait                  *)
(***************************************************************************)

\* C22 as claimed: after a retryable response with attempts remaining,
\* whatever its Retry-After header holds, the duration slept before the
\* next attempt is strictly positive and at most 60 seconds, and a hint
\* that does not yield a positive wait is replaced by the exponential
\* backoff of that attempt.
C22_WaitsPositive ==
    \A i \in 1..Len(waits) :
        RetryableAnswer(i) =>
            /\ DurLess(Seconds(0), waits[i])
            /\ ~DurLess(Seconds(60), waits[i])
            /\ Slept(waits[i]) = waits[i]
            /\ ~DurLess(Seconds(0),
                        parseRetryAfter(calls[i].retryAfter, ClockBefore(i)))
                  => waits[i] = Seconds(2 ^ (i - 1))

====
